---------------------------- MODULE Spec2Model ----------------------------
(***************************************************************************)
(* Model of the messaging backend: the PostgreSQL schema (schema file),    *)
(* the user controller (src/controllers/user.controller.js) and the        *)
(* services the controller calls.  The database is one record `db` with a  *)
(* field per table; a handler is a function from a database and a request  *)
(* to a database and a response.                                           *)
(***************************************************************************)
EXTENDS Integers, FiniteSets, Sequences, Bags, TLC

VARIABLES db, issued, resp, nreq, procs, sent

vars == <<db, issued, resp, nreq, procs, sent>>

(***************************************************************************)
(* Bounds of the model.                                                    *)
(***************************************************************************)
MaxRequests == 2
MaxRows == 4
MaxMessages == 2

UserPool == <<"u1", "u2", "u3">>
UserIds == {UserPool[i] : i \in 1..Len(UserPool)}
GroupPool == <<"g1">>
GroupIds == {GroupPool[i] : i \in 1..Len(GroupPool)}
MsgPool == [i \in 1..MaxMessages |-> "m" \o ToString(i)]
MsgIds == {MsgPool[i] : i \in 1..Len(MsgPool)}
Tokens == {"t1"}
ProcIds == {1, 2}

NULL == "NULL"

(***************************************************************************)
(* The schema: the columns of the tables the controller's statements       *)
(* name, and the row a table's defaults give.                              *)
(***************************************************************************)
UsersColumns ==
  {"id", "phone_number", "name", "email", "photo", "status", "verified",
   "disabled", "role", "created_at", "updated_at"}

BlockedUsersColumns == {"id", "blocker_id", "blocked_id", "created_at"}

ReportedUsersColumns == {"id", "reporter_id", "reported_id", "reason", "created_at"}

Columns(table) ==
  CASE table = "users" -> UsersColumns
    [] table = "blocked_users" -> BlockedUsersColumns
    [] table = "reported_users" -> ReportedUsersColumns

PhoneOf(id) == "phone-" \o id

\* A users row as INSERT INTO users (phone_number) leaves it: the defaults.
NewUserRow(id) ==
  [phone_number |-> PhoneOf(id), name |-> NULL, email |-> NULL, photo |-> NULL,
   status |-> NULL, verified |-> FALSE, disabled |-> FALSE, role |-> "user"]

EmptyDb ==
  [users |-> <<>>,
   otps |-> EmptyBag,
   sessions |-> EmptyBag,
   groups |-> <<>>,
   group_members |-> {},
   messages |-> <<>>,
   user_messages |-> EmptyBag,
   blocked_users |-> {},
   notification_tokens |-> <<>>,
   reported_users |-> EmptyBag,
   reported_groups |-> EmptyBag]

UserExists(d, id) == id \in DOMAIN d.users

(***************************************************************************)
(* ON DELETE actions of the schema, applied by DELETE FROM users.          *)
(***************************************************************************)
BagFilter(B, P(_)) ==
  LET keep == {r \in DOMAIN B : P(r)} IN [r \in keep |-> B[r]]

Restrict(f, S) == [x \in S |-> f[x]]

\* DELETE FROM groups WHERE id \in gs, with the cascades to the tables that
\* reference groups(id).
DeleteGroupsCascade(d, gs) ==
  LET msgsGone == {m \in DOMAIN d.messages : d.messages[m].group_id \in gs}
  IN [d EXCEPT
        !.groups = Restrict(d.groups, DOMAIN d.groups \ gs),
        !.group_members = {r \in d.group_members : r.group_id \notin gs},
        !.messages = Restrict(d.messages, DOMAIN d.messages \ msgsGone),
        !.user_messages = BagFilter(d.user_messages, LAMBDA r : r.message_id \notin msgsGone),
        !.reported_groups = BagFilter(d.reported_groups, LAMBDA r : r.group_id \notin gs)]

\* DELETE FROM messages WHERE id \in ms, with the cascade to user_messages.
DeleteMessagesCascade(d, ms) ==
  [d EXCEPT
     !.messages = Restrict(d.messages, DOMAIN d.messages \ ms),
     !.user_messages = BagFilter(d.user_messages, LAMBDA r : r.message_id \notin ms)]

\* The delete as it would be without the cascade from users to user_messages.
DeleteUserCascade_KeepUserMessages(d, id) ==
  LET d1 == DeleteGroupsCascade(d, {g \in DOMAIN d.groups : d.groups[g].created_by = id})
      d2 == DeleteMessagesCascade(d1,
              {m \in DOMAIN d1.messages :
                 d1.messages[m].from_id = id \/ d1.messages[m].to_id = id})
  IN [d2 EXCEPT
        !.users = Restrict(d2.users, DOMAIN d2.users \ {id}),
        !.otps = BagFilter(d2.otps, LAMBDA r : r.user_id # id),
        !.sessions = BagFilter(d2.sessions, LAMBDA r : r.user_id # id),
        !.group_members =
           {IF r.added_by = id THEN [r EXCEPT !.added_by = NULL] ELSE r :
              r \in {x \in d2.group_members : x.user_id # id}},
        !.blocked_users =
           {r \in d2.blocked_users : r.blocker_id # id /\ r.blocked_id # id},
        !.notification_tokens =
           Restrict(d2.notification_tokens,
                    {t \in DOMAIN d2.notification_tokens : d2.notification_tokens[t] # id}),
        !.reported_users =
           BagFilter(d2.reported_users, LAMBDA r : r.reporter_id # id /\ r.reported_id # id),
        !.reported_groups = BagFilter(d2.reported_groups, LAMBDA r : r.reporter_id # id)]

\* The delete as it would be with group_members.added_by declared
\* ON DELETE CASCADE like the other foreign keys.
DeleteUserCascade_AddedByCascade(d, id) ==
  LET d1 == DeleteGroupsCascade(d, {g \in DOMAIN d.groups : d.groups[g].created_by = id})
      d2 == DeleteMessagesCascade(d1,
              {m \in DOMAIN d1.messages :
                 d1.messages[m].from_id = id \/ d1.messages[m].to_id = id})
  IN [d2 EXCEPT
        !.users = Restrict(d2.users, DOMAIN d2.users \ {id}),
        !.otps = BagFilter(d2.otps, LAMBDA r : r.user_id # id),
        !.sessions = BagFilter(d2.sessions, LAMBDA r : r.user_id # id),
        !.group_members = {x \in d2.group_members : x.user_id # id /\ x.added_by # id},
        !.user_messages = BagFilter(d2.user_messages, LAMBDA r : r.user_id # id),
        !.blocked_users =
           {r \in d2.blocked_users : r.blocker_id # id /\ r.blocked_id # id},
        !.notification_tokens =
           Restrict(d2.notification_tokens,
                    {t \in DOMAIN d2.notification_tokens : d2.notification_tokens[t] # id}),
        !.reported_users =
           BagFilter(d2.reported_users, LAMBDA r : r.reporter_id # id /\ r.reported_id # id),
        !.reported_groups = BagFilter(d2.reported_groups, LAMBDA r : r.reporter_id # id)]

\* DELETE FROM users WHERE id = $1: every foreign key to users(id) is
\* ON DELETE CASCADE, except group_members.added_by (ON DELETE SET NULL).
DeleteUserCascade(d, id) ==
  LET d1 == DeleteGroupsCascade(d, {g \in DOMAIN d.groups : d.groups[g].created_by = id})
      d2 == DeleteMessagesCascade(d1,
              {m \in DOMAIN d1.messages :
                 d1.messages[m].from_id = id \/ d1.messages[m].to_id = id})
  IN [d2 EXCEPT
        !.users = Restrict(d2.users, DOMAIN d2.users \ {id}),
        !.otps = BagFilter(d2.otps, LAMBDA r : r.user_id # id),
        !.sessions = BagFilter(d2.sessions, LAMBDA r : r.user_id # id),
        !.group_members =
           {IF r.added_by = id THEN [r EXCEPT !.added_by = NULL] ELSE r :
              r \in {x \in d2.group_members : x.user_id # id}},
        !.user_messages = BagFilter(d2.user_messages, LAMBDA r : r.user_id # id),
        !.blocked_users =
           {r \in d2.blocked_users : r.blocker_id # id /\ r.blocked_id # id},
        !.notification_tokens =
           Restrict(d2.notification_tokens,
                    {t \in DOMAIN d2.notification_tokens : d2.notification_tokens[t] # id}),
        !.reported_users =
           BagFilter(d2.reported_users, LAMBDA r : r.reporter_id # id /\ r.reported_id # id),
        !.reported_groups = BagFilter(d2.reported_groups, LAMBDA r : r.reporter_id # id)]

(***************************************************************************)
(* Rows and constraints of the dependent tables.  A statement that breaks  *)
(* a constraint (NOT NULL, FOREIGN KEY, UNIQUE, CHECK) inserts nothing.    *)
(***************************************************************************)
BagAdd(B, r) == B (+) SetToBag({r})

\* The rows of every table but users.
DependentRows(d) ==
  BagCardinality(d.otps) + BagCardinality(d.sessions) + Cardinality(DOMAIN d.groups)
    + Cardinality(d.group_members) + Cardinality(DOMAIN d.messages)
    + BagCardinality(d.user_messages) + Cardinality(d.blocked_users)
    + Cardinality(DOMAIN d.notification_tokens) + BagCardinality(d.reported_users)
    + BagCardinality(d.reported_groups)

UserRef(d, u) == u \in DOMAIN d.users
NullableUserRef(d, u) == u = NULL \/ u \in DOMAIN d.users
GroupRef(d, g) == g \in DOMAIN d.groups
NullableGroupRef(d, g) == g = NULL \/ g \in DOMAIN d.groups

\* otps: user_id UUID REFERENCES users(id).
OtpsOk(d, user_id) == NullableUserRef(d, user_id)
InsertOtps(d, user_id) == [d EXCEPT !.otps = BagAdd(@, [user_id |-> user_id])]

\* sessions: user_id UUID NOT NULL REFERENCES users(id).
SessionsOk(d, user_id) == UserRef(d, user_id)
InsertSessions(d, user_id) == [d EXCEPT !.sessions = BagAdd(@, [user_id |-> user_id])]

\* groups: created_by UUID NOT NULL REFERENCES users(id).
GroupsOk(d, id, created_by) == id \notin DOMAIN d.groups /\ UserRef(d, created_by)
InsertGroups(d, id, created_by, only_admins_can_post) ==
  [d EXCEPT !.groups =
     [g \in DOMAIN d.groups \cup {id} |->
        IF g = id THEN [created_by |-> created_by,
                        only_admins_can_post |-> only_admins_can_post]
        ELSE d.groups[g]]]

\* group_members: the three foreign keys and UNIQUE (group_id, user_id).
GroupMembersOk(d, group_id, user_id, added_by) ==
  /\ GroupRef(d, group_id)
  /\ UserRef(d, user_id)
  /\ NullableUserRef(d, added_by)
  /\ ~\E r \in d.group_members : r.group_id = group_id /\ r.user_id = user_id
InsertGroupMembers(d, group_id, user_id, is_admin, added_by) ==
  [d EXCEPT !.group_members =
     @ \cup {[group_id |-> group_id, user_id |-> user_id, is_admin |-> is_admin,
              added_by |-> added_by]}]

\* A messages CHECK that lets a row with no target through.
MessagesCheck_AtMostOne(to_id, group_id) == to_id = NULL \/ group_id = NULL

\* CHECK ((to_id IS NULL AND group_id IS NOT NULL) OR
\*        (to_id IS NOT NULL AND group_id IS NULL))
MessagesCheck(to_id, group_id) ==
  (to_id = NULL /\ group_id # NULL) \/ (to_id # NULL /\ group_id = NULL)

\* messages: from_id NOT NULL, the three foreign keys and the CHECK.
MessagesOk(d, id, from_id, to_id, group_id) ==
  /\ id \notin DOMAIN d.messages
  /\ UserRef(d, from_id)
  /\ NullableUserRef(d, to_id)
  /\ NullableGroupRef(d, group_id)
  /\ MessagesCheck(to_id, group_id)
InsertMessages(d, id, from_id, to_id, group_id) ==
  [d EXCEPT !.messages =
     [m \in DOMAIN d.messages \cup {id} |->
        IF m = id THEN [from_id |-> from_id, to_id |-> to_id, group_id |-> group_id]
        ELSE d.messages[m]]]

\* user_messages: the two foreign keys and UNIQUE (user_id, message_id).
UserMessagesOk(d, user_id, message_id) ==
  /\ UserRef(d, user_id)
  /\ message_id \in DOMAIN d.messages
  /\ ~BagIn([user_id |-> user_id, message_id |-> message_id], d.user_messages)
InsertUserMessages(d, user_id, message_id) ==
  [d EXCEPT !.user_messages = BagAdd(@, [user_id |-> user_id, message_id |-> message_id])]

\* blocked_users: the two foreign keys and UNIQUE (blocker_id, blocked_id).
BlockedUsersOk(d, blocker_id, blocked_id) ==
  /\ UserRef(d, blocker_id)
  /\ UserRef(d, blocked_id)
  /\ [blocker_id |-> blocker_id, blocked_id |-> blocked_id] \notin d.blocked_users

InsertBlockedUsersRow(d, blocker_id, blocked_id) ==
  [d EXCEPT !.blocked_users = @ \cup {[blocker_id |-> blocker_id, blocked_id |-> blocked_id]}]

\* notification_tokens: user_id NOT NULL REFERENCES users(id), UNIQUE (token).
NotificationTokensOk(d, token, user_id) ==
  token \notin DOMAIN d.notification_tokens /\ UserRef(d, user_id)
InsertNotificationTokens(d, token, user_id) ==
  [d EXCEPT !.notification_tokens =
     [t \in DOMAIN d.notification_tokens \cup {token} |->
        IF t = token THEN user_id ELSE d.notification_tokens[t]]]

\* reported_users: reporter_id and reported_id NOT NULL REFERENCES users(id).
ReportedUsersOk(d, reporter_id, reported_id) ==
  UserRef(d, reporter_id) /\ UserRef(d, reported_id)

InsertReportedUsersRow(d, reporter_id, reported_id, reason) ==
  [d EXCEPT !.reported_users =
     BagAdd(@, [reporter_id |-> reporter_id, reported_id |-> reported_id, reason |-> reason])]

\* reported_groups: reporter_id REFERENCES users(id), group_id REFERENCES groups(id).
ReportedGroupsOk(d, reporter_id, group_id) ==
  UserRef(d, reporter_id) /\ GroupRef(d, group_id)
InsertReportedGroups(d, reporter_id, group_id) ==
  [d EXCEPT !.reported_groups =
     BagAdd(@, [reporter_id |-> reporter_id, group_id |-> group_id])]

\* The columns in which some row holds the user id `id`.
References(d, id) ==
  {c \in {"otps.user_id", "sessions.user_id", "groups.created_by",
          "group_members.user_id", "group_members.added_by", "messages.from_id",
          "messages.to_id", "user_messages.user_id", "blocked_users.blocker_id",
          "blocked_users.blocked_id", "notification_tokens.user_id",
          "reported_users.reporter_id", "reported_users.reported_id",
          "reported_groups.reporter_id"} :
     CASE c = "otps.user_id" -> \E r \in BagToSet(d.otps) : r.user_id = id
       [] c = "sessions.user_id" -> \E r \in BagToSet(d.sessions) : r.user_id = id
       [] c = "groups.created_by" -> \E g \in DOMAIN d.groups : d.groups[g].created_by = id
       [] c = "group_members.user_id" -> \E r \in d.group_members : r.user_id = id
       [] c = "group_members.added_by" -> \E r \in d.group_members : r.added_by = id
       [] c = "messages.from_id" -> \E m \in DOMAIN d.messages : d.messages[m].from_id = id
       [] c = "messages.to_id" -> \E m \in DOMAIN d.messages : d.messages[m].to_id = id
       [] c = "user_messages.user_id" -> \E r \in BagToSet(d.user_messages) : r.user_id = id
       [] c = "blocked_users.blocker_id" -> \E r \in d.blocked_users : r.blocker_id = id
       [] c = "blocked_users.blocked_id" -> \E r \in d.blocked_users : r.blocked_id = id
       [] c = "notification_tokens.user_id" ->
            \E t \in DOMAIN d.notification_tokens : d.notification_tokens[t] = id
       [] c = "reported_users.reporter_id" ->
            \E r \in BagToSet(d.reported_users) : r.reporter_id = id
       [] c = "reported_users.reported_id" ->
            \E r \in BagToSet(d.reported_users) : r.reported_id = id
       [] c = "reported_groups.reporter_id" ->
            \E r \in BagToSet(d.reported_groups) : r.reporter_id = id}

(***************************************************************************)
(* The user service (services/user.service) and the error translator       *)
(* (middleware/errorHandler), which the controller requires.               *)
(***************************************************************************)
\* A service call that returns: the database it leaves.
Returned(d) == [db |-> d, status |-> 200, message |-> ""]

\* A thrown ApiError, as the error translator answers it: its status and message.
ApiError(d, status, message) == [db |-> d, status |-> status, message |-> message]

\* Any other thrown error, as the error translator answers it: a generic 500.
ServerError(d) == [db |-> d, status |-> 500, message |-> "Internal server error"]

\* userService.getUserById(id) finds a row (it throws NotFound otherwise).
getUserById(d, id) == UserExists(d, id)

\* userService.updateUser(id, userData): UPDATE users SET <each key of
\* userData> WHERE id = $1.
serviceUpdateUser(d, id, userData) ==
  IF ~UserExists(d, id) THEN ApiError(d, 404, "User not found")
  ELSE Returned([d EXCEPT !.users[id] =
                   [c \in DOMAIN d.users[id] |->
                      IF c \in DOMAIN userData THEN userData[c] ELSE d.users[id][c]]])

serviceUpdateVerificationStatus(d, id, verified) ==
  IF ~UserExists(d, id) THEN ApiError(d, 404, "User not found")
  ELSE Returned([d EXCEPT !.users[id].verified = verified])

serviceUpdateDisabledStatus(d, id, disabled) ==
  IF ~UserExists(d, id) THEN ApiError(d, 404, "User not found")
  ELSE Returned([d EXCEPT !.users[id].disabled = disabled])

\* userService.deleteUser(id): DELETE FROM users WHERE id = $1; no row
\* deleted is NotFound.
serviceDeleteUser(d, id) ==
  IF ~UserExists(d, id) THEN ApiError(d, 404, "User not found")
  ELSE Returned(DeleteUserCascade(d, id))

(***************************************************************************)
(* The messaging and group membership services.                            *)
(***************************************************************************)
MembersOf(d, g) == {r.user_id : r \in {x \in d.group_members : x.group_id = g}}

IsAdmin(d, g, u) ==
  \E r \in d.group_members : r.group_id = g /\ r.user_id = u /\ r.is_admin

Blocked(d, a, b) == [blocker_id |-> a, blocked_id |-> b] \in d.blocked_users

\* The service's own test of the targets, before any statement.
ExactlyOneTarget(to_id, group_id) == (to_id = NULL) # (group_id = NULL)

\* Who gets a user_messages row: the recipient, or the group's members at
\* the time of the send, but for the sender.
Recipients(d, sender, to_id, group_id) ==
  IF to_id # NULL THEN {to_id} ELSE MembersOf(d, group_id) \ {sender}

\* The transaction: the messages row, then one user_messages row for each
\* recipient.  It commits whole, or (a constraint broken, a storage failure
\* at any statement) it is rolled back whole.
SendTransaction(d, id, sender, to_id, group_id, fails) ==
  LET rcpts == Recipients(d, sender, to_id, group_id)
      d1 == InsertMessages(d, id, sender, to_id, group_id)
      committed == [d1 EXCEPT !.user_messages =
                      @ (+) SetToBag({[user_id |-> u, message_id |-> id] : u \in rcpts})]
  IN IF fails \/ ~MessagesOk(d, id, sender, to_id, group_id)
          \/ \E u \in rcpts : ~UserMessagesOk(d1, u, id)
     THEN ServerError(d)
     ELSE Returned(committed)

sendMessage(d, id, sender, to_id, group_id, fails) ==
  IF ~ExactlyOneTarget(to_id, group_id)
    THEN ApiError(d, 400, "Exactly one of to_id and group_id is required")
  ELSE IF to_id # NULL /\ (Blocked(d, to_id, sender) \/ Blocked(d, sender, to_id))
    THEN ApiError(d, 403, "Blocked")
  ELSE IF group_id # NULL /\ sender \notin MembersOf(d, group_id)
    THEN ApiError(d, 403, "Not a member of the group")
  ELSE IF group_id # NULL /\ d.groups[group_id].only_admins_can_post
            /\ ~IsAdmin(d, group_id, sender)
    THEN ApiError(d, 403, "Only admins can post")
  ELSE SendTransaction(d, id, sender, to_id, group_id, fails)

\* addMember: Conflict when the user is a member already.
addMember(d, g, u, addedBy) ==
  IF \E r \in d.group_members : r.group_id = g /\ r.user_id = u
    THEN ApiError(d, 409, "Already a member")
  ELSE IF ~GroupMembersOk(d, g, u, addedBy) THEN ServerError(d)
  ELSE Returned(InsertGroupMembers(d, g, u, FALSE, addedBy))

\* removeMember: success whether or not the user was a member.
removeMember(d, g, u) ==
  Returned([d EXCEPT !.group_members =
              {r \in @ : ~(r.group_id = g /\ r.user_id = u)}])

(***************************************************************************)
(* The controller.                                                         *)
(***************************************************************************)
\* The names user.controller.js binds at module scope.
ControllerBindings == {"userService", "ApiError", "logger", "UserController"}

\* Evaluating query(text, params) in the controller: a ReferenceError when
\* the name is unbound; otherwise PostgreSQL rejects a statement that names
\* a column its table does not have.
query(table, columns) ==
  IF "query" \notin ControllerBindings THEN "ReferenceError"
  ELSE IF ~(columns \subseteq Columns(table)) THEN "undefined_column"
  ELSE "ok"

\* The fields of the request body updateUser hands to the service.
EditableFields == {"name", "email", "photo", "status"}

\* The handler as it would be if it handed req.body to the service.
BuildUserData_WholeBody(body) == body

\* A key the JSON body lacks destructures to undefined.
BuildUserData(body) ==
  LET keys == {f \in EditableFields : f \in DOMAIN body}
  IN [f \in keys |-> body[f]]

\* res.status(200).json({error: false, message}) once the awaited call returned;
\* next(error) otherwise.
Json200(r, message) == IF r.status = 200 THEN [r EXCEPT !.message = message] ELSE r

updateUser(d, id, body) ==
  Json200(serviceUpdateUser(d, id, BuildUserData(body)), "User updated successfully")

updateVerificationStatus(d, id, body) ==
  IF "verified" \notin DOMAIN body THEN ApiError(d, 400, "Verified status is required")
  ELSE Json200(serviceUpdateVerificationStatus(d, id, body.verified),
               IF body.verified THEN "User verified successfully"
               ELSE "User unverified successfully")

updateDisabledStatus(d, id, body) ==
  IF "disabled" \notin DOMAIN body THEN ApiError(d, 400, "Disabled status is required")
  ELSE Json200(serviceUpdateDisabledStatus(d, id, body.disabled),
               IF body.disabled THEN "User disabled successfully"
               ELSE "User enabled successfully")

deleteUser(d, id) == Json200(serviceDeleteUser(d, id), "User deleted successfully")

\* INSERT INTO reported_users (user_id, reported_by, reason) VALUES ($1, $2, $3)
InsertReportedUsers(d, id, reportedBy, reason) ==
  LET st == query("reported_users", {"user_id", "reported_by", "reason"})
  IN IF st # "ok" THEN [db |-> d, error |-> st, rowCount |-> 0]
     ELSE IF ~UserExists(d, id) \/ ~UserExists(d, reportedBy)
       THEN [db |-> d, error |-> "foreign_key_violation", rowCount |-> 0]
     ELSE [db |-> [d EXCEPT !.reported_users =
                     @ (+) SetToBag({[reporter_id |-> reportedBy, reported_id |-> id,
                                      reason |-> reason]})],
           error |-> "none", rowCount |-> 1]

\* The statement as it would be if it ran against a table with no foreign keys.
InsertBlockedUsers_NoForeignKeys(d, blockedBy, id) ==
  [db |-> [d EXCEPT !.blocked_users =
             @ \cup {[blocker_id |-> blockedBy, blocked_id |-> id]}],
   error |-> "none", rowCount |-> 1]

\* INSERT INTO blocked_users (user_id, blocked_user_id) VALUES ($1, $2)
\* ON CONFLICT DO NOTHING
InsertBlockedUsers(d, blockedBy, id) ==
  LET st == query("blocked_users", {"user_id", "blocked_user_id"})
      row == [blocker_id |-> blockedBy, blocked_id |-> id]
  IN IF st # "ok" THEN [db |-> d, error |-> st, rowCount |-> 0]
     ELSE IF ~UserExists(d, id) \/ ~UserExists(d, blockedBy)
       THEN [db |-> d, error |-> "foreign_key_violation", rowCount |-> 0]
     ELSE IF row \in d.blocked_users THEN [db |-> d, error |-> "none", rowCount |-> 0]
     ELSE [db |-> [d EXCEPT !.blocked_users = @ \cup {row}],
           error |-> "none", rowCount |-> 1]

\* DELETE FROM blocked_users WHERE user_id = $1 AND blocked_user_id = $2
DeleteBlockedUsers(d, blockedBy, id) ==
  LET st == query("blocked_users", {"user_id", "blocked_user_id"})
      row == [blocker_id |-> blockedBy, blocked_id |-> id]
  IN IF st # "ok" THEN [db |-> d, error |-> st, rowCount |-> 0]
     ELSE IF row \in d.blocked_users
       THEN [db |-> [d EXCEPT !.blocked_users = @ \ {row}], error |-> "none", rowCount |-> 1]
     ELSE [db |-> d, error |-> "none", rowCount |-> 0]

\* !reason: the body has no reason, or an empty one.
reportUser(d, reportedBy, id, body) ==
  IF "reason" \notin DOMAIN body \/ body.reason = "" THEN ApiError(d, 400, "Reason is required")
  ELSE IF id = reportedBy THEN ApiError(d, 400, "You cannot report yourself")
  ELSE IF ~getUserById(d, id) THEN ApiError(d, 404, "User not found")
  ELSE LET r == InsertReportedUsers(d, id, reportedBy, body.reason)
       IN IF r.error # "none" THEN ServerError(r.db)
          ELSE Json200(Returned(r.db), "User reported successfully")

blockUser(d, blockedBy, id) ==
  IF id = blockedBy THEN ApiError(d, 400, "You cannot block yourself")
  ELSE IF ~getUserById(d, id) THEN ApiError(d, 404, "User not found")
  ELSE LET r == InsertBlockedUsers(d, blockedBy, id)
       IN IF r.error # "none" THEN ServerError(r.db)
          ELSE Json200(Returned(r.db), "User blocked successfully")

unblockUser(d, blockedBy, id) ==
  LET r == DeleteBlockedUsers(d, blockedBy, id)
  IN IF r.error # "none" THEN ServerError(r.db)
     ELSE Json200(Returned(r.db),
                  IF r.rowCount > 0 THEN "User unblocked successfully"
                  ELSE "User was not blocked")

(***************************************************************************)
(* Requests, one at a time.                                                *)
(***************************************************************************)
\* A request handler that has not been entered.
IdleProc == [pc |-> "idle", op |-> "none", caller |-> NULL, id |-> NULL,
             arg |-> <<>>, status |-> 0, gone |-> FALSE]

NoResp == [op |-> "none", caller |-> NULL, id |-> NULL, arg |-> <<>>,
           status |-> 0, message |-> ""]

Respond(op, caller, id, arg, r) ==
  /\ db' = r.db
  /\ resp' = [op |-> op, caller |-> caller, id |-> id, arg |-> arg,
              status |-> r.status, message |-> r.message]
  /\ nreq' = nreq + 1
  /\ sent' = Restrict(sent, DOMAIN sent \cap DOMAIN r.db.messages)
  /\ UNCHANGED <<issued, procs>>

Init ==
  /\ db = EmptyDb
  /\ issued = {}
  /\ resp = NoResp
  /\ nreq = 0
  /\ procs = [p \in ProcIds |-> IdleProc]
  /\ sent = <<>>

\* uuid_generate_v4(): an id no row was ever given (the first of the pool).
Fresh(pool) == pool[CHOOSE i \in 1..Len(pool) :
                      /\ pool[i] \notin issued
                      /\ \A j \in 1..(i - 1) : pool[j] \in issued]

HasFresh(pool) == \E i \in 1..Len(pool) : pool[i] \notin issued

InsertUsers(d, id) ==
  [d EXCEPT !.users = [u \in DOMAIN d.users \cup {id} |->
                         IF u = id THEN NewUserRow(id) ELSE d.users[u]]]

\* Signup: a users row with a fresh id.
CreateUser ==
  /\ HasFresh(UserPool)
  /\ db' = InsertUsers(db, Fresh(UserPool))
  /\ issued' = issued \cup {Fresh(UserPool)}
  /\ UNCHANGED <<resp, nreq, procs, sent>>

\* The values a request body gives a field, and the values a stored row
\* may hold from earlier requests.
BodyValues == {NULL, "x"}
StoredValues == {NULL, "y"}

Merge(f, g) == [k \in DOMAIN f \cup DOMAIN g |-> IF k \in DOMAIN f THEN f[k] ELSE g[k]]

\* What a request body may carry besides the editable fields.
ExtraBodies ==
  {<<>>,
   [phone_number |-> "phone-evil"],
   [verified |-> TRUE],
   [disabled |-> TRUE],
   [role |-> "admin"],
   [phone_number |-> "phone-evil", verified |-> TRUE, disabled |-> TRUE, role |-> "admin"]}

EditBodies == UNION {[S -> BodyValues] : S \in SUBSET EditableFields}

Bodies == {Merge(b, e) : b \in EditBodies, e \in ExtraBodies}

SmallBodies == {b \in Bodies : DOMAIN b \cap EditableFields \subseteq {"name"}}

FlagBodies(flag) == {<<>>} \cup {[k \in {flag} |-> v] : v \in BOOLEAN}

UpdateUser ==
  /\ nreq < MaxRequests
  /\ \E id \in UserIds, body \in SmallBodies :
       Respond("updateUser", NULL, id, body, updateUser(db, id, body))

UpdateVerificationStatus ==
  /\ nreq < MaxRequests
  /\ \E id \in UserIds, body \in FlagBodies("verified") :
       Respond("updateVerificationStatus", NULL, id, body,
               updateVerificationStatus(db, id, body))

UpdateDisabledStatus ==
  /\ nreq < MaxRequests
  /\ \E id \in UserIds, body \in FlagBodies("disabled") :
       Respond("updateDisabledStatus", NULL, id, body,
               updateDisabledStatus(db, id, body))

DeleteUser ==
  /\ nreq < MaxRequests
  /\ \E id \in UserIds : Respond("deleteUser", NULL, id, <<>>, deleteUser(db, id))

ReasonBodies == {<<>>, [reason |-> ""], [reason |-> "spam"]}

ReportUser ==
  /\ nreq < MaxRequests
  /\ \E caller \in UserIds, id \in UserIds, body \in ReasonBodies :
       Respond("reportUser", caller, id, body, reportUser(db, caller, id, body))

BlockUser ==
  /\ nreq < MaxRequests
  /\ \E caller \in UserIds, id \in UserIds :
       Respond("blockUser", caller, id, <<>>, blockUser(db, caller, id))

UnblockUser ==
  /\ nreq < MaxRequests
  /\ \E caller \in UserIds, id \in UserIds :
       Respond("unblockUser", caller, id, <<>>, unblockUser(db, caller, id))

Next ==
  \/ CreateUser
  \/ UpdateUser
  \/ UpdateVerificationStatus
  \/ UpdateDisabledStatus
  \/ DeleteUser
  \/ ReportUser
  \/ BlockUser
  \/ UnblockUser

Spec == Init /\ [][Next]_vars

(***************************************************************************)
(* updateUser as a function of the stored row and the request body: one    *)
(* request, on every row the handlers can leave and every body.            *)
(***************************************************************************)
ProtectedFields == {"phone_number", "verified", "disabled", "role"}

UserRows(id) ==
  {[NewUserRow(id) EXCEPT !.name = p.name, !.email = p.email, !.photo = p.photo,
                          !.status = p.status, !.verified = v, !.disabled = x, !.role = r] :
     p \in [EditableFields -> StoredValues], v \in BOOLEAN, x \in BOOLEAN,
     r \in {"user", "admin"}}

InitUpdate ==
  /\ \E row \in UserRows("u1") :
       db = [InsertUsers(InsertUsers(EmptyDb, "u1"), "u2") EXCEPT !.users["u1"] = row]
  /\ issued = {"u1", "u2"}
  /\ resp = NoResp
  /\ nreq = 0
  /\ procs = [p \in ProcIds |-> IdleProc]
  /\ sent = <<>>

UpdateUserAnyBody ==
  /\ nreq = 0
  /\ \E id \in UserIds, body \in Bodies :
       Respond("updateUser", NULL, id, body, updateUser(db, id, body))

NextUpdate == UpdateUserAnyBody

SpecUpdate == InitUpdate /\ [][NextUpdate]_vars

(***************************************************************************)
(* The schema under the statements it admits: any client of the database   *)
(* may insert a row that meets the constraints, and delete a user.         *)
(***************************************************************************)
Room == DependentRows(db) < MaxRows

Users == DOMAIN db.users
UsersOrNull == Users \cup {NULL}
Groups == DOMAIN db.groups
GroupsOrNull == Groups \cup {NULL}

Statement(d) ==
  /\ db' = d
  /\ sent' = Restrict(sent, DOMAIN sent \cap DOMAIN d.messages)
  /\ UNCHANGED <<issued, resp, nreq, procs>>

SqlInsertOtps ==
  /\ Room
  /\ \E u \in UsersOrNull : OtpsOk(db, u) /\ Statement(InsertOtps(db, u))

SqlInsertSessions ==
  /\ Room
  /\ \E u \in Users : SessionsOk(db, u) /\ Statement(InsertSessions(db, u))

SqlInsertGroups ==
  /\ Room
  /\ HasFresh(GroupPool)
  /\ \E u \in Users, oap \in BOOLEAN :
       /\ GroupsOk(db, Fresh(GroupPool), u)
       /\ db' = InsertGroups(db, Fresh(GroupPool), u, oap)
       /\ issued' = issued \cup {Fresh(GroupPool)}
       /\ UNCHANGED <<resp, nreq, procs, sent>>

SqlInsertGroupMembers ==
  /\ Room
  /\ \E g \in Groups, u \in Users, a \in Users :
       /\ GroupMembersOk(db, g, u, a)
       /\ Statement(InsertGroupMembers(db, g, u, FALSE, a))

\* INSERT INTO messages with any targets: the row is stored when the
\* constraints hold, and the statement fails otherwise.
SqlInsertMessages ==
  /\ Room
  /\ HasFresh(MsgPool)
  /\ \E f \in Users, t \in UsersOrNull, g \in GroupsOrNull :
       LET id == Fresh(MsgPool)
           ok == MessagesOk(db, id, f, t, g)
       IN /\ db' = IF ok THEN InsertMessages(db, id, f, t, g) ELSE db
          /\ issued' = IF ok THEN issued \cup {id} ELSE issued
          /\ resp' = [op |-> "INSERT INTO messages", caller |-> f, id |-> NULL,
                      arg |-> [to_id |-> t, group_id |-> g],
                      status |-> IF ok THEN 200 ELSE 500,
                      message |-> IF ok THEN "" ELSE "check_violation"]
          /\ UNCHANGED <<nreq, procs, sent>>

\* INSERT INTO messages of a row that meets the constraints.
SqlInsertMessagesRow ==
  /\ Room
  /\ HasFresh(MsgPool)
  /\ \E f \in Users, t \in UsersOrNull, g \in GroupsOrNull :
       /\ MessagesOk(db, Fresh(MsgPool), f, t, g)
       /\ db' = InsertMessages(db, Fresh(MsgPool), f, t, g)
       /\ issued' = issued \cup {Fresh(MsgPool)}
       /\ UNCHANGED <<resp, nreq, procs, sent>>

SqlInsertUserMessages ==
  /\ Room
  /\ \E u \in Users, m \in DOMAIN db.messages :
       UserMessagesOk(db, u, m) /\ Statement(InsertUserMessages(db, u, m))

SqlInsertBlockedUsers ==
  /\ Room
  /\ \E a \in Users, b \in Users :
       BlockedUsersOk(db, a, b) /\ Statement(InsertBlockedUsersRow(db, a, b))

SqlInsertNotificationTokens ==
  /\ Room
  /\ \E t \in Tokens, u \in Users :
       NotificationTokensOk(db, t, u) /\ Statement(InsertNotificationTokens(db, t, u))

SqlInsertReportedUsers ==
  /\ Room
  /\ \E a \in Users, b \in Users :
       ReportedUsersOk(db, a, b) /\ Statement(InsertReportedUsersRow(db, a, b, "spam"))

SqlInsertReportedGroups ==
  /\ Room
  /\ \E a \in Users, g \in Groups :
       ReportedGroupsOk(db, a, g) /\ Statement(InsertReportedGroups(db, a, g))

\* Signup of one of the first two users of the pool.
SqlInsertUsers ==
  /\ HasFresh(SubSeq(UserPool, 1, 2))
  /\ db' = InsertUsers(db, Fresh(SubSeq(UserPool, 1, 2)))
  /\ issued' = issued \cup {Fresh(SubSeq(UserPool, 1, 2))}
  /\ UNCHANGED <<resp, nreq, procs, sent>>

\* deleteUser on an existing user; ids are never reissued, so the pool
\* bounds the deletions and the answer (200) is not recorded.
DeleteExistingUser ==
  \E id \in Users :
    /\ deleteUser(db, id).status = 200
    /\ Statement(deleteUser(db, id).db)

NextSchema ==
  \/ SqlInsertUsers
  \/ SqlInsertOtps
  \/ SqlInsertSessions
  \/ SqlInsertGroups
  \/ SqlInsertGroupMembers
  \/ SqlInsertMessagesRow
  \/ SqlInsertUserMessages
  \/ SqlInsertBlockedUsers
  \/ SqlInsertNotificationTokens
  \/ SqlInsertReportedUsers
  \/ SqlInsertReportedGroups
  \/ DeleteExistingUser

SpecSchema == Init /\ [][NextSchema]_vars

(***************************************************************************)
(* Messaging: sends, membership changes and deletions, in any order.       *)
(***************************************************************************)
\* One sendMessage call; `answered` says whether its answer is kept in resp.
SendMessageCall(answered) ==
  /\ HasFresh(MsgPool)
  /\ \E sender \in Users, t \in UsersOrNull, g \in GroupsOrNull, fails \in BOOLEAN :
       LET id == Fresh(MsgPool)
           r == sendMessage(db, id, sender, t, g, fails)
       IN /\ db' = r.db
          /\ resp' = IF answered
                       THEN [op |-> "sendMessage", caller |-> sender, id |-> NULL,
                             arg |-> [to_id |-> t, group_id |-> g],
                             status |-> r.status, message |-> r.message]
                       ELSE resp
          /\ issued' = IF r.status = 200 THEN issued \cup {id} ELSE issued
          /\ sent' = IF r.status = 200
                       THEN [m \in DOMAIN sent \cup {id} |->
                               IF m = id
                                 THEN IF g # NULL /\ g \in Groups THEN MembersOf(db, g) ELSE {}
                                 ELSE sent[m]]
                       ELSE sent
          /\ UNCHANGED <<nreq, procs>>

SendMessage == SendMessageCall(FALSE)

SendMessageAnswered == SendMessageCall(TRUE)

AddMember ==
  \E g \in Groups, u \in Users :
    /\ addMember(db, g, u, db.groups[g].created_by).status = 200
    /\ Statement(addMember(db, g, u, db.groups[g].created_by).db)

RemoveMember ==
  \E g \in Groups : \E u \in MembersOf(db, g) : Statement(removeMember(db, g, u).db)

CreateGroup ==
  /\ HasFresh(GroupPool)
  /\ \E u \in Users, oap \in BOOLEAN :
       /\ GroupsOk(db, Fresh(GroupPool), u)
       /\ db' = InsertGroups(db, Fresh(GroupPool), u, oap)
       /\ issued' = issued \cup {Fresh(GroupPool)}
       /\ UNCHANGED <<resp, nreq, procs, sent>>

NextMsg ==
  \/ CreateUser
  \/ CreateGroup
  \/ AddMember
  \/ RemoveMember
  \/ SendMessage
  \/ DeleteExistingUser

SpecMsg == Init /\ [][NextMsg]_vars

(***************************************************************************)
(* Message creation: the service's sends and plain INSERTs into messages,  *)
(* with any targets, each attempt's answer kept in resp.                   *)
(***************************************************************************)
NextMessages ==
  \/ SqlInsertUsers
  \/ CreateGroup
  \/ AddMember
  \/ SqlInsertMessages
  \/ SendMessageAnswered

SpecMessages == Init /\ [][NextMessages]_vars

(***************************************************************************)
(* blockUser and reportUser as they run: each await yields, so another     *)
(* request may run between the existence check and the statement.          *)
(***************************************************************************)
\* What the error translator answers for the result of the statement.
StatusOf(r) == IF r.error # "none" THEN 500 ELSE 200

\* blockUser up to the return of `await userService.getUserById(id)`.
BlockUserCheck(p) ==
  /\ procs[p].pc \in {"idle", "done"}
  /\ \E caller \in Users, id \in UserIds :
       LET status == IF id = caller THEN 400
                     ELSE IF ~getUserById(db, id) THEN 404 ELSE 0
       IN procs' = [procs EXCEPT ![p] =
                      [pc |-> IF status = 0 THEN "checked" ELSE "done",
                       op |-> "blockUser", caller |-> caller, id |-> id,
                       arg |-> <<>>, status |-> status, gone |-> FALSE]]
  /\ UNCHANGED <<db, issued, resp, nreq, sent>>

\* blockUser from `await query(...)` to its answer.
BlockUserInsert(p) ==
  /\ procs[p].pc = "checked"
  /\ procs[p].op = "blockUser"
  /\ LET r == InsertBlockedUsers(db, procs[p].caller, procs[p].id)
     IN /\ db' = r.db
        /\ procs' = [procs EXCEPT ![p].pc = "done", ![p].status = StatusOf(r),
                                  ![p].gone = ~UserExists(db, procs[p].id)
                                                \/ ~UserExists(db, procs[p].caller)]
  /\ UNCHANGED <<issued, resp, nreq, sent>>

\* reportUser up to the return of `await userService.getUserById(id)`.
ReportUserCheck(p) ==
  /\ procs[p].pc \in {"idle", "done"}
  /\ \E caller \in Users, id \in UserIds, body \in ReasonBodies :
       LET status == IF "reason" \notin DOMAIN body \/ body.reason = "" THEN 400
                     ELSE IF id = caller THEN 400
                     ELSE IF ~getUserById(db, id) THEN 404 ELSE 0
       IN procs' = [procs EXCEPT ![p] =
                      [pc |-> IF status = 0 THEN "checked" ELSE "done",
                       op |-> "reportUser", caller |-> caller, id |-> id,
                       arg |-> body, status |-> status, gone |-> FALSE]]
  /\ UNCHANGED <<db, issued, resp, nreq, sent>>

\* reportUser from `await query(...)` to its answer.
ReportUserInsert(p) ==
  /\ procs[p].pc = "checked"
  /\ procs[p].op = "reportUser"
  /\ LET r == InsertReportedUsers(db, procs[p].id, procs[p].caller, procs[p].arg.reason)
     IN /\ db' = r.db
        /\ procs' = [procs EXCEPT ![p].pc = "done", ![p].status = StatusOf(r),
                                  ![p].gone = ~UserExists(db, procs[p].id)
                                                \/ ~UserExists(db, procs[p].caller)]
  /\ UNCHANGED <<issued, resp, nreq, sent>>

NextConc ==
  \/ CreateUser
  \/ DeleteExistingUser
  \/ \E p \in ProcIds : BlockUserCheck(p)
  \/ \E p \in ProcIds : BlockUserInsert(p)
  \/ \E p \in ProcIds : ReportUserCheck(p)
  \/ \E p \in ProcIds : ReportUserInsert(p)

SpecConc == Init /\ [][NextConc]_vars

(***************************************************************************)
(* Properties of the request handlers, checked under Spec.                 *)
(***************************************************************************)
\* A step of Spec that handles one request: resp' is its request and answer,
\* db the database before it and db' the database after it.
Handles(op) == nreq' # nreq /\ resp'.op = op

BlockedRow(blocker, blocked) == [blocker_id |-> blocker, blocked_id |-> blocked]

PathIdOps ==
  {"reportUser", "blockUser", "unblockUser", "updateUser",
   "updateVerificationStatus", "updateDisabledStatus", "deleteUser"}

\* The request's arguments pass the handler's own validation.
WellFormed(r) ==
  CASE r.op = "updateVerificationStatus" -> "verified" \in DOMAIN r.arg
    [] r.op = "updateDisabledStatus" -> "disabled" \in DOMAIN r.arg
    [] r.op = "reportUser" ->
         "reason" \in DOMAIN r.arg /\ r.arg.reason # "" /\ r.caller # r.id
    [] r.op = "blockUser" -> r.caller # r.id
    [] OTHER -> TRUE

\* C1: a handler that receives a path id answers a well-formed request for an
\* id that no user has with NotFound (404), and changes no row of any table.
C1_ExistenceCheckedFirst ==
  [][(nreq' # nreq /\ resp'.op \in PathIdOps /\ WellFormed(resp')
        /\ ~UserExists(db, resp'.id))
       => (resp'.status = 404 /\ db' = db)]_vars

\* C2: blockUser answers 400 when the caller blocks themselves, 404 when the
\* target does not exist, and otherwise 200, after which blocked_users holds
\* the (caller, target) row once, whether or not it held it before.
C2_BlockUserContract ==
  [][Handles("blockUser") =>
       LET c == resp'.caller
           t == resp'.id
       IN IF c = t THEN resp'.status = 400 /\ db' = db
          ELSE IF ~UserExists(db, t) THEN resp'.status = 404 /\ db' = db
          ELSE UserExists(db, c) =>
                 /\ resp'.status = 200
                 /\ db' = [db EXCEPT !.blocked_users = @ \cup {BlockedRow(c, t)}]]_vars

\* C3: unblockUser always answers 200: with 'User unblocked successfully'
\* when the (caller, target) row existed, which it alone deletes, and with
\* 'User was not blocked', changing nothing, when it did not.
C3_UnblockUserContract ==
  [][Handles("unblockUser") =>
       LET row == BlockedRow(resp'.caller, resp'.id)
       IN /\ resp'.status = 200
          /\ row \in db.blocked_users =>
               /\ resp'.message = "User unblocked successfully"
               /\ db' = [db EXCEPT !.blocked_users = @ \ {row}]
          /\ row \notin db.blocked_users =>
               /\ resp'.message = "User was not blocked"
               /\ db' = db]_vars

\* C4: reportUser on oneself answers 400 for every reason and appends no
\* row; reportUser with a reason, by an existing user on another existing
\* user, appends exactly one reported_users row, each time it is called.
C4_ReportUserContract ==
  [][Handles("reportUser") =>
       LET c == resp'.caller
           t == resp'.id
       IN /\ c = t => (resp'.status = 400 /\ db' = db)
          /\ (WellFormed(resp') /\ UserExists(db, c) /\ UserExists(db, t)) =>
               /\ resp'.status = 200
               /\ db' = [db EXCEPT !.reported_users =
                           @ (+) SetToBag({[reporter_id |-> c, reported_id |-> t,
                                            reason |-> resp'.arg.reason]})]]_vars

IdempotentOps ==
  {"blockUser", "unblockUser", "updateVerificationStatus", "updateDisabledStatus"}

\* The request is one the operation applies to: its users exist and its
\* arguments are well formed.
Applicable(d, r) ==
  /\ WellFormed(r)
  /\ UserExists(d, r.id)
  /\ r.op \in {"blockUser", "unblockUser"} => UserExists(d, r.caller)

SameRequest(r1, r2) ==
  r1.op = r2.op /\ r1.caller = r2.caller /\ r1.id = r2.id /\ r1.arg = r2.arg

\* C9: blockUser, unblockUser, updateVerificationStatus and
\* updateDisabledStatus succeed on every request they apply to; repeated, the
\* request succeeds again and leaves the database as the first left it; and
\* verified set to true and then to false ends false.
C9_IdempotentRetry ==
  [][(nreq' # nreq /\ resp'.op \in IdempotentOps) =>
       /\ Applicable(db, resp') => resp'.status = 200
       /\ (SameRequest(resp, resp') /\ resp.status = 200) =>
            (resp'.status = 200 /\ db' = db)
       /\ (/\ resp'.op = "updateVerificationStatus"
           /\ resp.op = "updateVerificationStatus"
           /\ resp.id = resp'.id
           /\ resp.status = 200
           /\ resp.arg = [verified |-> TRUE]
           /\ resp'.arg = [verified |-> FALSE]) =>
            (resp'.status = 200 /\ ~db'.users[resp'.id].verified)]_vars

(***************************************************************************)
(* Properties of updateUser, checked under SpecUpdate.                     *)
(***************************************************************************)
\* C5: updateUser hands the service exactly the fields of name, email,
\* photo, status that the body carries; whatever else the body carries, the
\* row's phone_number, verified, disabled and role are as before, a field of
\* the four that the body carries takes the body's value, and one it lacks
\* keeps its value.
C5_UpdateUserFrame ==
  [][Handles("updateUser") =>
       LET id == resp'.id
           body == resp'.arg
       IN /\ DOMAIN BuildUserData(body) = DOMAIN body \cap EditableFields
          /\ UserExists(db, id) =>
               /\ resp'.status = 200
               /\ UserExists(db', id)
               /\ \A f \in ProtectedFields : db'.users[id][f] = db.users[id][f]
               /\ \A f \in EditableFields :
                    db'.users[id][f] =
                      IF f \in DOMAIN body THEN body[f] ELSE db.users[id][f]]_vars

\* An update that carried a role and a name but no email: the name is the
\* body's, the role is still "user" and the e-mail is the one stored before.
C5_Witness ==
  /\ resp.op = "updateUser"
  /\ resp.status = 200
  /\ DOMAIN resp.arg = {"name", "role"}
  /\ resp.arg.role = "admin"
  /\ db.users[resp.id].name = resp.arg.name
  /\ db.users[resp.id].role = "user"
  /\ db.users[resp.id].email = "y"

(***************************************************************************)
(* Properties of the schema, checked under SpecSchema.                     *)
(***************************************************************************)
DeletedUsers == (issued \cap UserIds) \ DOMAIN db.users

\* C8: no row of any table holds the id of a user that does not exist (so
\* none holds a deleted user's id), and deleting a user keeps the membership
\* rows of the users the deleted user had added, in the groups that remain,
\* with added_by set to null.
C8_CascadeOnDelete ==
  /\ [](\A id \in UserIds \ DOMAIN db.users : References(db, id) = {})
  /\ [][\A id \in DOMAIN db.users \ DOMAIN db'.users :
          \A r \in db.group_members :
            (r.user_id # id /\ r.group_id \in DOMAIN db'.groups) =>
              [r EXCEPT !.added_by = IF @ = id THEN NULL ELSE @] \in db'.group_members]_vars

\* A user was deleted who had added a member (whose row is kept, added_by
\* null: the statements never insert a null added_by) and who had sent or
\* received the one message ever stored (which is gone).
C8_Witness ==
  /\ DeletedUsers # {}
  /\ \E r \in db.group_members : r.added_by = NULL
  /\ issued \cap MsgIds # {}
  /\ DOMAIN db.messages = {}

(***************************************************************************)
(* Properties of the fan-out, checked under SpecMsg.  sent[m] is the set   *)
(* of members the group of message m had when m was sent.                  *)
(***************************************************************************)
RowsOf(m) == {r \in BagToSet(db.user_messages) : r.message_id = m}

\* The users message m was addressed to when it was sent.
Addressees(m) ==
  IF db.messages[m].to_id # NULL THEN {db.messages[m].to_id}
  ELSE sent[m] \ {db.messages[m].from_id}

\* C7, as stated: every stored message has exactly one user_messages row for
\* each user it was addressed to when it was sent (the recipient; the group's
\* members at send time but for the sender), and no other row.
C7_FanOutComplete ==
  \A m \in DOMAIN db.messages :
    /\ {r.user_id : r \in RowsOf(m)} = Addressees(m)
    /\ \A r \in RowsOf(m) : CopiesIn(r, db.user_messages) = 1

\* C7, amended: every stored message has exactly one user_messages row for
\* each user it was addressed to when it was sent who has not been deleted
\* since, and no other row; and every user_messages row is a stored message's.
C7_FanOutCompleteForExistingUsers ==
  /\ \A m \in DOMAIN db.messages :
       /\ {r.user_id : r \in RowsOf(m)} = Addressees(m) \cap DOMAIN db.users
       /\ \A r \in RowsOf(m) : CopiesIn(r, db.user_messages) = 1
  /\ \A r \in BagToSet(db.user_messages) : r.message_id \in DOMAIN db.messages

\* A group message that went to two members, one of whom was deleted since,
\* beside a direct message.
C7_Witness ==
  \E m \in DOMAIN db.messages, n \in DOMAIN db.messages :
    /\ db.messages[m].group_id # NULL
    /\ Cardinality(Addressees(m)) = 2
    /\ Cardinality(RowsOf(m)) = 1
    /\ db.messages[n].to_id # NULL
    /\ Cardinality(RowsOf(n)) = 1

(***************************************************************************)
(* Properties of message creation, checked under SpecMessages.             *)
(***************************************************************************)
MessageOps == {"sendMessage", "INSERT INTO messages"}

\* C6: every stored message has exactly one of to_id and group_id non-null;
\* an attempt to create a message with both targets or with neither is
\* rejected (by the service with 400, before any statement; by the table's
\* CHECK when the row is inserted directly) and leaves messages unchanged.
C6_ExactlyOneTargetStored ==
  /\ [](\A m \in DOMAIN db.messages :
          (db.messages[m].to_id = NULL) # (db.messages[m].group_id = NULL))
  /\ [][(resp' # resp /\ resp'.op \in MessageOps
           /\ (resp'.arg.to_id = NULL) = (resp'.arg.group_id = NULL))
          => /\ db'.messages = db.messages
             /\ issued' = issued
             /\ resp'.status = IF resp'.op = "sendMessage" THEN 400 ELSE 500]_vars

\* A send with both targets was just refused, after a message was stored and
\* with a group to send to.
C6_Witness ==
  /\ resp.op = "sendMessage"
  /\ resp.arg.to_id # NULL /\ resp.arg.group_id # NULL
  /\ resp.status = 400
  /\ DOMAIN db.messages # {}

=============================================================================
